---- MODULE Spec2Model ----
(***************************************************************************)
(* Document-ingestion and query orchestration of the LightRAG agent        *)
(* backend: the text extractor, the knowledge engine adapter               *)
(* (LightRAGService), the document registry (documents_db), the            *)
(* knowledge-base registry (knowledge_bases_db) and the request handlers.  *)
(*                                                                         *)
(* Text is a sequence of code points, a byte buffer a sequence of 0..255.  *)
(* Coroutines run on one event loop: a handler runs atomically from one    *)
(* await to the next, so every action below is one such segment.           *)
(***************************************************************************)
EXTENDS Integers, Sequences, FiniteSets, TLC

\* Python's None.
None == "None"

(***************************************************************************)
(* Text extractor (services/text_extraction_service.py)                    *)
(***************************************************************************)

\* str.isspace() of one code point; also what \s matches in a str pattern.
IsSpace(c) ==
    \/ c \in 9..13
    \/ c \in 28..32
    \/ c \in {133, 160, 5760, 8232, 8233, 8239, 8287, 12288}
    \/ c \in 8192..8202

RECURSIVE LStrip(_)
LStrip(s) ==
    IF s = <<>> THEN s
    ELSE IF IsSpace(Head(s)) THEN LStrip(Tail(s)) ELSE s

RECURSIVE RStrip(_)
RStrip(s) ==
    IF s = <<>> THEN s
    ELSE IF IsSpace(s[Len(s)]) THEN RStrip(SubSeq(s, 1, Len(s) - 1)) ELSE s

\* str.strip()
Strip(s) == RStrip(LStrip(s))

\* The positions of a sequence, in order.
Positions(s) == [i \in 1..Len(s) |-> i]

\* The elements of s at the positions listed in kept.
Pick(s, kept) == [k \in 1..Len(kept) |-> s[kept[k]]]

\* Position i lies strictly between two newlines of one run of whitespace.
InsideBlankLines(s, i) ==
    /\ IsSpace(s[i])
    /\ \E p \in 1..(i - 1), q \in (i + 1)..Len(s) :
          /\ s[p] = 10
          /\ s[q] = 10
          /\ \A j \in p..q : IsSpace(s[j])

\* re.sub(r'\n\s*\n', '\n\n', s): a match starts at the first newline of a
\* run of whitespace and the greedy \s* carries it to the last newline of
\* the run, so what lies between the two newlines is dropped.
CollapseBlankLines(s) ==
    Pick(s, SelectSeq(Positions(s), LAMBDA i : ~InsideBlankLines(s, i)))

\* Faulty variant of CollapseSpaces: a run of spaces is replaced by nothing.
CollapseSpacesRemoves(s) == SelectSeq(s, LAMBDA c : c # 32)

\* re.sub(r' +', ' ', s): of a run of spaces the last one stays.
CollapseSpaces(s) ==
    Pick(s, SelectSeq(Positions(s),
                      LAMBDA i : ~(s[i] = 32 /\ i < Len(s) /\ s[i + 1] = 32)))

\* [\x00-\x08\x0B\x0C\x0E-\x1F\x7F]
IsControl(c) == c \in 0..8 \/ c \in {11, 12, 127} \/ c \in 14..31

\* re.sub(r'[\x00-\x08\x0B\x0C\x0E-\x1F\x7F]', '', s)
RemoveControl(s) == SelectSeq(s, LAMBDA c : ~IsControl(c))

\* clean_text: the regular expressions cannot raise on a str, so the except
\* branch that returns the original text is never taken.
clean_text(text) ==
    RemoveControl(CollapseSpaces(CollapseBlankLines(Strip(text))))

(* Decoders used by extract_text_from_txt.  A decoder yields               *)
(* [ok |-> TRUE, text |-> t] or, for UnicodeDecodeError, ok |-> FALSE.     *)

DecodeError == [ok |-> FALSE, text |-> <<>>]

Decoded(t) == [ok |-> TRUE, text |-> t]

IsCont(b) == b \in 128..191

\* One more code point in front of an already decoded tail.
Prepend(c, rest) == IF rest.ok THEN Decoded(<<c>> \o rest.text) ELSE DecodeError

\* Number of bytes of the UTF-8 sequence a lead byte opens, 0 for a byte
\* that opens none.
Utf8Width(lead) ==
    IF lead < 128 THEN 1
    ELSE IF lead \in 194..223 THEN 2
    ELSE IF lead \in 224..239 THEN 3
    ELSE IF lead \in 240..244 THEN 4
    ELSE 0

\* The bytes from position i on open with one well-formed UTF-8 sequence
\* that ends where the next sequence, if any, starts.
Utf8WellFormed(b, i) ==
    LET w == Utf8Width(b[i])
    IN  /\ w > 0
        /\ i + w - 1 <= Len(b)
        /\ \A j \in (i + 1)..(i + w - 1) : IsCont(b[j])
        /\ (i + w <= Len(b) => ~IsCont(b[i + w]))
        /\ (b[i] = 224 => b[i + 1] >= 160)
        /\ (b[i] = 237 => b[i + 1] <= 159)
        /\ (b[i] = 240 => b[i + 1] >= 144)
        /\ (b[i] = 244 => b[i + 1] <= 143)

\* Code point of the well-formed UTF-8 sequence at position i.
Utf8Point(b, i) ==
    CASE Utf8Width(b[i]) = 1 -> b[i]
      [] Utf8Width(b[i]) = 2 -> (b[i] - 192) * 64 + (b[i + 1] - 128)
      [] Utf8Width(b[i]) = 3 ->
            (b[i] - 224) * 4096 + (b[i + 1] - 128) * 64 + (b[i + 2] - 128)
      [] Utf8Width(b[i]) = 4 ->
            (b[i] - 240) * 262144 + (b[i + 1] - 128) * 4096
              + (b[i + 2] - 128) * 64 + (b[i + 3] - 128)

\* bytes.decode('utf-8'), strict: the sequences start at the bytes that are
\* not continuation bytes, and one ill-formed sequence fails the whole call.
DecodeUtf8(b) ==
    LET starts == SelectSeq(Positions(b), LAMBDA i : ~IsCont(b[i]))
    IN  IF \/ (b # <<>> /\ IsCont(b[1]))
           \/ \E k \in 1..Len(starts) : ~Utf8WellFormed(b, starts[k])
        THEN DecodeError
        ELSE Decoded([k \in 1..Len(starts) |-> Utf8Point(b, starts[k])])

\* The 16-bit code units of a byte buffer, little or big endian; a trailing
\* odd byte is a decoding error.
RECURSIVE Utf16Units(_, _)
Utf16Units(b, little) ==
    IF b = <<>> THEN Decoded(<<>>)
    ELSE IF Len(b) = 1 THEN DecodeError
    ELSE Prepend(IF little THEN b[1] + 256 * b[2] ELSE 256 * b[1] + b[2],
                 Utf16Units(SubSeq(b, 3, Len(b)), little))

\* Code points of a sequence of code units: surrogate pairs are combined, a
\* lone surrogate is a decoding error.
RECURSIVE Utf16Points(_)
Utf16Points(u) ==
    IF u = <<>> THEN Decoded(<<>>)
    ELSE IF u[1] \in 55296..56319
         THEN IF Len(u) >= 2 /\ u[2] \in 56320..57343
              THEN Prepend(65536 + (u[1] - 55296) * 1024 + (u[2] - 56320),
                           Utf16Points(SubSeq(u, 3, Len(u))))
              ELSE DecodeError
    ELSE IF u[1] \in 56320..57343 THEN DecodeError
    ELSE Prepend(u[1], Utf16Points(Tail(u)))

\* bytes.decode('utf-16'): a byte-order mark selects the order and is
\* consumed; without one the platform order (little endian) is used.
DecodeUtf16(b) ==
    LET bomLE == Len(b) >= 2 /\ b[1] = 255 /\ b[2] = 254
        bomBE == Len(b) >= 2 /\ b[1] = 254 /\ b[2] = 255
        body  == IF bomLE \/ bomBE THEN SubSeq(b, 3, Len(b)) ELSE b
        units == Utf16Units(body, ~bomBE)
    IN  IF units.ok THEN Utf16Points(units.text) ELSE DecodeError

\* bytes.decode('latin-1'): every byte is its own code point.
DecodeLatin1(b) == Decoded(b)

\* cp1252 code points of the bytes 0x80..0x9F; 0 marks an undefined byte.
Cp1252High ==
    <<8364, 0, 8218, 402, 8222, 8230, 8224, 8225, 710, 8240, 352, 8249, 338, 0,
      381, 0, 0, 8216, 8217, 8220, 8221, 8226, 8211, 8212, 732, 8482, 353,
      8250, 339, 0, 382, 376>>

\* bytes.decode('cp1252')
RECURSIVE DecodeCp1252(_)
DecodeCp1252(b) ==
    IF b = <<>> THEN Decoded(<<>>)
    ELSE IF b[1] \in 128..159
         THEN IF Cp1252High[b[1] - 127] = 0 THEN DecodeError
              ELSE Prepend(Cp1252High[b[1] - 127], DecodeCp1252(Tail(b)))
    ELSE Prepend(b[1], DecodeCp1252(Tail(b)))

\* Faulty variant of encodings: Latin-1 is tried first.
encodingsLatin1First == <<"latin-1", "utf-8", "utf-16", "cp1252">>

encodings == <<"utf-8", "utf-16", "latin-1", "cp1252">>

Decode(b, encoding) ==
    CASE encoding = "utf-8"   -> DecodeUtf8(b)
      [] encoding = "utf-16"  -> DecodeUtf16(b)
      [] encoding = "latin-1" -> DecodeLatin1(b)
      [] encoding = "cp1252"  -> DecodeCp1252(b)

(* An extraction yields [ok |-> TRUE, text |-> t, err |-> <<>>] or raises:  *)
(* ok |-> FALSE with err the exception message, a sequence of fragments     *)
(* (each wrapper puts its prefix in front of the message it caught).        *)

Extracted(t) == [ok |-> TRUE, text |-> t, err |-> <<>>]

Raised(msg) == [ok |-> FALSE, text |-> <<>>, err |-> msg]

Wrap(prefix, r) == IF r.ok THEN r ELSE Raised(<<prefix>> \o r.err)

\* The loop of extract_text_from_txt from the i-th encoding on.
RECURSIVE TryEncodings(_, _)
TryEncodings(file_content, i) ==
    IF i > Len(encodings)
    THEN Raised(<<"Could not decode text file with any supported encoding">>)
    ELSE LET d == Decode(file_content, encodings[i])
         IN  IF d.ok /\ Strip(d.text) # <<>> THEN Extracted(Strip(d.text))
             ELSE TryEncodings(file_content, i + 1)

extract_text_from_txt(file_content) ==
    Wrap("Text file extraction failed", TryEncodings(file_content, 1))

(* The PDF and DOCX parsers are libraries outside the repository.  What     *)
(* they do with a byte buffer comes with the input: lib.pdfplumber and      *)
(* lib.pypdf2 are [open_raises, pages], a page being                        *)
(* [kind |-> "text" | "none" | "raise", text |-> t]; lib.docx is            *)
(* [raises, paragraphs, tables], a table a sequence of rows of cell texts.  *)

LibraryError == "<library error>"

\* The page loop of the pdfplumber attempt: the text accumulated so far and
\* whether a page raised.
RECURSIVE PlumberPages(_, _, _)
PlumberPages(pages, i, text) ==
    IF i > Len(pages) THEN [raised |-> FALSE, text |-> text]
    ELSE IF pages[i].kind = "raise" THEN [raised |-> TRUE, text |-> text]
    ELSE IF pages[i].kind = "text" /\ pages[i].text # <<>>
         THEN PlumberPages(pages, i + 1, text \o pages[i].text \o <<10>>)
    ELSE PlumberPages(pages, i + 1, text)

\* The page loop of the PyPDF2 fallback: a page without text (None) makes
\* the concatenation raise.
RECURSIVE PyPDF2Pages(_, _, _)
PyPDF2Pages(pages, i, text) ==
    IF i > Len(pages) THEN [raised |-> FALSE, text |-> text]
    ELSE IF pages[i].kind # "text" THEN [raised |-> TRUE, text |-> text]
    ELSE PyPDF2Pages(pages, i + 1, text \o pages[i].text \o <<10>>)

\* The local variable text when the pdfplumber attempt is over.
PlumberAttempt(lib) ==
    IF lib.pdfplumber.open_raises THEN [raised |-> TRUE, text |-> <<>>]
    ELSE PlumberPages(lib.pdfplumber.pages, 1, <<>>)

\* Lines 57-66: PyPDF2 appends to the text the first attempt left behind.
PyPDF2Fallback(lib, text) ==
    IF lib.pypdf2.open_raises THEN Raised(<<LibraryError>>)
    ELSE LET second == PyPDF2Pages(lib.pypdf2.pages, 1, text)
         IN  IF second.raised THEN Raised(<<LibraryError>>)
             ELSE IF Strip(second.text) = <<>>
                  THEN Raised(<<"No text could be extracted from the PDF">>)
             ELSE Extracted(Strip(second.text))

extract_text_from_pdf(lib) ==
    LET first == PlumberAttempt(lib)
    IN  IF ~first.raised /\ Strip(first.text) # <<>>
        THEN Extracted(Strip(first.text))
        ELSE Wrap("PDF text extraction failed", PyPDF2Fallback(lib, first.text))

RECURSIVE ParagraphText(_, _)
ParagraphText(paragraphs, i) ==
    IF i > Len(paragraphs) THEN <<>>
    ELSE paragraphs[i] \o <<10>> \o ParagraphText(paragraphs, i + 1)

RECURSIVE RowText(_, _)
RowText(row, i) ==
    IF i > Len(row) THEN <<10>>
    ELSE row[i] \o <<32>> \o RowText(row, i + 1)

RECURSIVE TableText(_, _)
TableText(table, i) ==
    IF i > Len(table) THEN <<>>
    ELSE RowText(table[i], 1) \o TableText(table, i + 1)

RECURSIVE TablesText(_, _)
TablesText(tables, i) ==
    IF i > Len(tables) THEN <<>>
    ELSE TableText(tables[i], 1) \o TablesText(tables, i + 1)

extract_text_from_docx(lib) ==
    LET text == ParagraphText(lib.docx.paragraphs, 1) \o TablesText(lib.docx.tables, 1)
    IN  Wrap("DOCX text extraction failed",
             IF lib.docx.raises THEN Raised(<<LibraryError>>)
             ELSE IF Strip(text) = <<>>
                  THEN Raised(<<"No text could be extracted from the Word document">>)
             ELSE Extracted(Strip(text)))

\* Position of the last occurrence of c in s, 0 if there is none.
RECURSIVE RFind(_, _)
RFind(s, c) ==
    IF s = <<>> THEN 0
    ELSE IF s[Len(s)] = c THEN Len(s) ELSE RFind(SubSeq(s, 1, Len(s) - 1), c)

\* Path(filename).suffix: the final component from its last dot on, unless
\* that dot is its first or its last character.
Suffix(filename) ==
    LET name == SubSeq(filename, RFind(filename, 47) + 1, Len(filename))
        i    == RFind(name, 46)
    IN  IF 1 < i /\ i < Len(name) THEN SubSeq(name, i, Len(name)) ELSE <<>>

\* Faulty variant of Lower: the letters keep their case.
LowerNothing(s) == s

\* str.lower() on the Latin capital letters.
Lower(s) == [i \in 1..Len(s) |-> IF s[i] \in 65..90 THEN s[i] + 32 ELSE s[i]]

DotPdf == <<46, 112, 100, 102>>

DotDocx == <<46, 100, 111, 99, 120>>

DotTxt == <<46, 116, 120, 116>>

DotMd == <<46, 109, 100>>

\* Minimum length of the cleaned text (line 204).
MinTextLength == 10

\* Faulty variant of ExtractDispatch: the final validation is missing.
ExtractDispatchNoMinimum(file_content, filename, lib) ==
    LET file_extension == Lower(Suffix(filename))
        raw == IF file_extension = DotPdf THEN extract_text_from_pdf(lib)
               ELSE IF file_extension = DotDocx THEN extract_text_from_docx(lib)
               ELSE IF file_extension \in {DotTxt, DotMd}
                    THEN extract_text_from_txt(file_content)
               ELSE Raised(<<"Unsupported file type">>)
    IN  IF ~raw.ok THEN raw ELSE Extracted(clean_text(raw.text))

\* Lines 185-207 of extract_text_from_file, before the except clause.
ExtractDispatch(file_content, filename, lib) ==
    LET file_extension == Lower(Suffix(filename))
        raw == IF file_extension = DotPdf THEN extract_text_from_pdf(lib)
               ELSE IF file_extension = DotDocx THEN extract_text_from_docx(lib)
               ELSE IF file_extension \in {DotTxt, DotMd}
                    THEN extract_text_from_txt(file_content)
               ELSE Raised(<<"Unsupported file type">>)
    IN  IF ~raw.ok THEN raw
        ELSE IF Len(Strip(clean_text(raw.text))) < MinTextLength
             THEN Raised(<<"Extracted text is too short (minimum 10 characters required)">>)
        ELSE Extracted(clean_text(raw.text))

extract_text_from_file(file_content, filename, lib) ==
    Wrap("Text extraction failed", ExtractDispatch(file_content, filename, lib))

\* The functions of the module that lines 189-200 of extract_text_from_file
\* call: the parser the extension selects, if any, and clean_text once the
\* parser has returned a text.
Invoked(file_content, filename, lib) ==
    LET file_extension == Lower(Suffix(filename))
    IN  IF file_extension = DotPdf
        THEN {"extract_text_from_pdf"}
                 \cup IF extract_text_from_pdf(lib).ok THEN {"clean_text"} ELSE {}
        ELSE IF file_extension = DotDocx
        THEN {"extract_text_from_docx"}
                 \cup IF extract_text_from_docx(lib).ok THEN {"clean_text"} ELSE {}
        ELSE IF file_extension \in {DotTxt, DotMd}
        THEN {"extract_text_from_txt"}
                 \cup IF extract_text_from_txt(file_content).ok THEN {"clean_text"} ELSE {}
        ELSE {}

(***************************************************************************)
(* Bounds and inputs                                                       *)
(***************************************************************************)

\* Requests that go through an await (upload, chat, initialize, finalize).
NumReq == 2

\* Number of uuid4 values drawn (document ids and knowledge-base ids).
MaxUuid == 2

\* Largest reading of the wall clock.
MaxClock == 1

\* Longest byte buffer given to the text extractor when it is studied on
\* its own.
MaxContentLen == 3

\* Callers of initialize when it is studied on its own.
NumCallers == 3

Req == 1..NumReq

Callers == 1..NumCallers

Uuids == 1..MaxUuid

\* "hello world"
HelloWorld == <<104, 101, 108, 108, 111, 32, 119, 111, 114, 108, 100>>

NoPdf == [open_raises |-> TRUE, pages |-> <<>>]

NoDocx == [raises |-> TRUE, paragraphs |-> <<>>, tables |-> <<>>]

NoLib == [pdfplumber |-> NoPdf, pypdf2 |-> NoPdf, docx |-> NoDocx]

UploadFile(filename, content, lib) ==
    [filename |-> filename, content |-> content, lib |-> lib]

\* "Hello world, this is a test document."
TestDocument ==
    <<72, 101, 108, 108, 111, 32, 119, 111, 114, 108, 100, 44, 32, 116, 104, 105, 115,
      32, 105, 115, 32, 97, 32, 116, 101, 115, 116, 32, 100, 111, 99, 117, 109, 101,
      110, 116, 46>>

\* The uploads the requests choose from: notes.txt, a two-character
\* tiny.txt, an empty empty.txt, an upload without filename, data.bin, and
\* last the notes.txt that holds the test document.
Files ==
    << UploadFile(<<110, 111, 116, 101, 115>> \o DotTxt, <<32>> \o HelloWorld \o <<10>>, NoLib),
       UploadFile(<<116, 105, 110, 121>> \o DotTxt, <<104, 105>>, NoLib),
       UploadFile(<<101, 109, 112, 116, 121>> \o DotTxt, <<>>, NoLib),
       UploadFile(<<>>, HelloWorld, NoLib),
       UploadFile(<<100, 97, 116, 97, 46, 98, 105, 110>>, HelloWorld, NoLib),
       UploadFile(<<110, 111, 116, 101, 115>> \o DotTxt, TestDocument, NoLib) >>

\* The upload of the test document, and the uploads of the workflows.
ScenarioFile == Len(Files)

WorkflowFiles == 1..(Len(Files) - 1)

valid_modes == {"local", "global", "hybrid", "naive", "mix"}

\* The modes the chat requests choose from.
ChatModes == {"hybrid", "mix", "bogus"}

\* Messages of the exceptions the engine raises.
EngineErrors == {"engine error"}

\* What an awaited engine call does: it returns, or raises with a message.
Outcomes ==
    {[ok |-> TRUE, err |-> ""]} \cup {[ok |-> FALSE, err |-> e] : e \in EngineErrors}

(***************************************************************************)
(* State                                                                   *)
(***************************************************************************)

VARIABLES
    documents_db,        \* routers/documents.py: id -> document record
    knowledge_bases_db,  \* routers/knowledge_base.py: id -> knowledge base
    rag,                 \* LightRAGService.rag: 0 is None, n the n-th engine
    _initialized,        \* LightRAGService._initialized
    constructed,         \* number of LightRAG(...) instances constructed
    uuid_count,          \* number of uuid4 values drawn so far
    clock,               \* datetime.now() / datetime.utcnow()
    requests,            \* the coroutine of every request with an await
    response,            \* the response of the last handler without await
    call                 \* a call of the text extractor: arguments and result

vars == <<documents_db, knowledge_bases_db, rag, _initialized, constructed,
          uuid_count, clock, requests, response, call>>

\* Requests are numbered in the order in which they arrive.
Arrives(r) ==
    /\ requests[r].pc = "idle"
    /\ IF r = 1 THEN TRUE ELSE requests[r - 1].pc # "idle"

NoInfo == [id |-> 0]

NoResult == [kind |-> "none"]

NoResponse == [code |-> 0]

\* No handler without await has answered yet.
NoAnswer == [op |-> "none", id |-> 0, code |-> 0, body |-> [detail |-> ""]]

\* Nobody calls the text extractor on its own.
NoCall == [fn |-> "none"]

\* A request slot nobody has used yet.  document_info is the local variable
\* of upload_document, the same dict object as the registry's entry while
\* that entry exists; statuses lists the values its status field has had;
\* calls lists the adapter functions the request has called; error is the
\* message of the exception the adapter caught on its behalf.
Idle ==
    [kind |-> "none", pc |-> "idle", file |-> 0, mode |-> "", document_id |-> 0,
     document_info |-> NoInfo, statuses |-> <<>>, calls |-> {}, error |-> "",
     result |-> NoResult, response |-> NoResponse]

Init ==
    /\ documents_db = << >>
    /\ knowledge_bases_db = << >>
    /\ rag = 0
    /\ _initialized = FALSE
    /\ constructed = 0
    /\ uuid_count = 0
    /\ clock = 0
    /\ requests = [r \in Req |-> Idle]
    /\ response = NoAnswer
    /\ call = NoCall

(* A Python dict keeps its keys in insertion order: it is the sequence of   *)
(* its values, each of which carries its key in the field id.               *)

Keys(d) == {d[i].id : i \in 1..Len(d)}

\* key in d
Has(d, key) == key \in Keys(d)

\* d[key]
Get(d, key) == d[CHOOSE i \in 1..Len(d) : d[i].id = key]

\* Faulty variant of Put: the status of the value written reaches the
\* records of the other keys too.
PutCrossed(d, key, value) ==
    IF Has(d, key)
    THEN [i \in 1..Len(d) |-> IF d[i].id = key THEN value
                               ELSE [d[i] EXCEPT !.status = value.status]]
    ELSE Append(d, value)

\* d[key] = value: an existing key keeps its place, a new one goes last.
Put(d, key, value) ==
    IF Has(d, key) THEN [i \in 1..Len(d) |-> IF d[i].id = key THEN value ELSE d[i]]
    ELSE Append(d, value)

\* Faulty variant of Del: nothing is removed.
DelNothing(d, key) == d

\* del d[key]
Del(d, key) == SelectSeq(d, LAMBDA v : v.id # key)

HTTPException(status_code, detail) == [code |-> status_code, detail |-> detail]

(***************************************************************************)
(* Knowledge engine adapter (services/lightrag_service.py)                 *)
(*                                                                         *)
(* A coroutine inside the adapter is suspended at one of the awaits        *)
(* "initialize_storages", "initialize_pipeline_status", "ainsert",         *)
(* "aquery", "finalize_storages"; pc "returned" means the adapter function *)
(* has handed its result to the handler, which goes on without yielding.   *)
(***************************************************************************)

Bool(b) == [kind |-> "bool", value |-> b]

Str(t) == [kind |-> "str", value |-> t]

\* An exception that leaves the function; e is its message, a sequence of
\* fragments.
Raise(e) == [kind |-> "raise", value |-> e]

Return(q, result) == [q EXCEPT !.pc = "returned", !.result = result]

\* Faulty variant of InsertExcept: the exception leaves insert_document.
InsertExceptPropagates(q, e) == Return([q EXCEPT !.error = e], Raise(<<e>>))

\* insert_document, lines 124-127: any exception becomes False.
InsertExcept(q, e) == Return([q EXCEPT !.error = e], Bool(FALSE))

\* query_knowledge_graph, lines 163-166: any exception becomes an apology.
QueryExcept(q, e) ==
    Return([q EXCEPT !.error = e],
           Str(<<"I encountered an error while processing your query", e>>))

\* self.rag.ainsert / self.rag.aquery on rag = None
AttributeError == "'NoneType' object has no attribute"

\* The caller of initialize goes on with its return value: lines 110-119 of
\* insert_document, lines 148-158 of query_knowledge_graph, or the return of
\* initialize_lightrag.  ragNow is self.rag at that moment.
AfterInitialize(q, value, ragNow) ==
    CASE q.kind = "initialize" -> Return(q, Bool(value))
      [] q.kind = "upload" ->
            IF ~value THEN Return(q, Bool(FALSE))
            ELSE IF ragNow = 0 THEN InsertExcept(q, AttributeError)
            ELSE [q EXCEPT !.pc = "ainsert"]
      [] q.kind = "chat" ->
            IF ~value
            THEN Return(q, Str(<<"I apologize, but the knowledge system is not available right now.">>))
            ELSE IF ragNow = 0 THEN QueryExcept(q, AttributeError)
            ELSE [q EXCEPT !.pc = "aquery"]

Adapter(ragNow, init, count, q) ==
    [rag |-> ragNow, initialized |-> init, constructed |-> count, slot |-> q]

\* Faulty variant of InitializeExcept: the handle is kept.
InitializeExceptKeepsHandle(count, q, e) ==
    Adapter(rag, FALSE, count, AfterInitialize([q EXCEPT !.error = e], FALSE, 0))

\* initialize, lines 90-95: the except clause.
InitializeExcept(count, q, e) ==
    Adapter(0, FALSE, count, AfterInitialize([q EXCEPT !.error = e], FALSE, 0))

\* initialize, lines 61-80, called for request slot q: up to the first await
\* or to the return.  ctor is what the LightRAG constructor does.
InitializeEnter(q, ctor) ==
    LET q1 == [q EXCEPT !.calls = @ \cup {"initialize"}]
    IN  IF _initialized /\ rag # 0
        THEN Adapter(rag, _initialized, constructed, AfterInitialize(q1, TRUE, rag))
        ELSE IF ctor.ok
             THEN Adapter(constructed + 1, _initialized, constructed + 1,
                          [q1 EXCEPT !.pc = "initialize_storages"])
        ELSE InitializeExcept(constructed, q1, ctor.err)

(***************************************************************************)
(* Request handlers with an await                                          *)
(***************************************************************************)

\* Faulty variants of StatusAfterInsert: the result of the insert is ignored;
\* a status outside the documented four is written.
StatusAfterInsertIgnoresResult(success) == "completed"

StatusAfterInsertUnknown(success) == IF success THEN "success" ELSE "failed"

\* Faulty variant of StatusAfterInsert: a failed insert leaves the status
\* as it was.
StatusAfterInsertKeepsProcessing(success) ==
    IF success THEN "completed" ELSE "processing"

\* Faulty variant of StatusAfterInsert: a failed insert is recorded as an
\* error.
StatusAfterInsertError(success) == IF success THEN "completed" ELSE "error"

\* upload_document, lines 134-139
StatusAfterInsert(success) == IF success THEN "completed" ELSE "failed"

\* document_info["status"] = status
SetStatus(q, status) ==
    [q EXCEPT !.document_info = [@ EXCEPT !.status = status],
              !.statuses = Append(@, status)]

\* upload_document, lines 134-153 (insert_document returned) and lines
\* 158-169 (an exception reached the handler).
UploadFinish(q, db) ==
    IF q.result.kind = "bool"
    THEN LET q1 == SetStatus(q, StatusAfterInsert(q.result.value))
             info == q1.document_info
         IN  [slot |-> [q1 EXCEPT !.pc = "done",
                                  !.response = [code |-> 200,
                                                id |-> q.document_id,
                                                filename |-> info.filename,
                                                size |-> info.size,
                                                text_length |-> info.text_length,
                                                status |-> info.status]],
              db |-> Put(db, q.document_id, info)]
    ELSE LET q1 == IF Has(db, q.document_id) THEN SetStatus(q, "error") ELSE q
         IN  [slot |-> [q1 EXCEPT !.pc = "done",
                                  !.response =
                                      HTTPException(500, <<"Error processing document">>
                                                           \o q.result.value)],
              db |-> IF Has(db, q.document_id)
                     THEN Put(db, q.document_id, q1.document_info)
                     ELSE db]

\* Faulty variant of ChatFinish: an engine failure becomes a 500.
ChatFinishFailsOnError(q) ==
    IF q.error = ""
    THEN [q EXCEPT !.pc = "done",
                   !.response = [code |-> 200, response |-> q.result.value,
                                 mode |-> q.mode, success |-> TRUE]]
    ELSE [q EXCEPT !.pc = "done",
                   !.response = HTTPException(500, <<"Internal server error">>)]

\* chat_query, lines 67-73 (query_knowledge_graph returned) and lines 78-87
\* (an exception reached the handler).
ChatFinish(q) ==
    IF q.result.kind = "str"
    THEN [q EXCEPT !.pc = "done",
                   !.response = [code |-> 200, response |-> q.result.value,
                                 mode |-> q.mode, success |-> TRUE]]
    ELSE [q EXCEPT !.pc = "done",
                   !.response =
                       [code |-> 200,
                        response |-> <<"I apologize, but I encountered an error processing your request">>
                                       \o q.result.value,
                        mode |-> q.mode, success |-> FALSE]]

\* The handler of slot q goes on once the adapter has returned to it.
Finish(q, db) ==
    IF q.pc # "returned" THEN [slot |-> q, db |-> db]
    ELSE IF q.kind = "upload" THEN UploadFinish(q, db)
    ELSE IF q.kind = "chat" THEN [slot |-> ChatFinish(q), db |-> db]
    ELSE [slot |-> [q EXCEPT !.pc = "done"], db |-> db]

\* The state after a step of request r that left the adapter as a says.
Step(r, a, db) ==
    /\ rag' = a.rag
    /\ _initialized' = a.initialized
    /\ constructed' = a.constructed
    /\ requests' = [requests EXCEPT ![r] = Finish(a.slot, db).slot]
    /\ documents_db' = Finish(a.slot, db).db

\* A step of request r that ends in slot q and touches neither the adapter
\* nor the registry.
Local(r, q) ==
    /\ requests' = [requests EXCEPT ![r] = q]
    /\ UNCHANGED <<documents_db, rag, _initialized, constructed>>

\* not file.filename (line 69)
NoFilename(file) == file.filename = <<>>

\* Faulty variant of EmptyFile: the check is missing.
EmptyFileNever(file_content) == FALSE

\* not file_content (line 85)
EmptyFile(file_content) == file_content = <<>>

\* not text_content or not text_content.strip() (line 101)
NoText(text_content) == text_content = <<>> \/ Strip(text_content) = <<>>

\* Faulty variant of Register: the record is stored only after the insert.
RegisterLate(db, document_info) == db

\* documents_db[document_id] = document_info (line 127)
Register(db, document_info) == Put(db, document_info.id, document_info)

\* upload_document, lines 69-84: the filename check, the uuid4 and the await
\* of file.read().
upload_document(r, f) ==
    /\ Arrives(r)
    /\ LET q == [requests[r] EXCEPT !.kind = "upload", !.file = f]
       IN  IF NoFilename(Files[f])
           THEN /\ Local(r, [q EXCEPT !.pc = "done",
                                      !.response = HTTPException(400, <<"No filename provided">>)])
                /\ UNCHANGED uuid_count
           ELSE /\ uuid_count < MaxUuid
                /\ uuid_count' = uuid_count + 1
                /\ Local(r, [q EXCEPT !.pc = "read", !.document_id = uuid_count + 1])
    /\ UNCHANGED <<knowledge_bases_db, clock, response, call>>

\* upload_document, lines 85-132: from the return of file.read() to the
\* first await inside insert_document (or to the response, if none is
\* reached).
upload_document_read(r) ==
    /\ requests[r].pc = "read"
    /\ LET q == requests[r]
           file == Files[q.file]
           extraction == extract_text_from_file(file.content, file.filename, file.lib)
           cleaned_text == Strip(extraction.text)
           document_info == [id |-> q.document_id,
                             filename |-> file.filename,
                             size |-> Len(file.content),
                             text_length |-> Len(cleaned_text),
                             status |-> "processing",
                             upload_time |-> clock,
                             text_content |-> cleaned_text]
       IN  IF EmptyFile(file.content)
           THEN Local(r, [q EXCEPT !.pc = "done",
                                   !.response = HTTPException(400, <<"Empty file uploaded">>)])
           ELSE IF ~extraction.ok
           THEN Step(r, Adapter(rag, _initialized, constructed,
                                Return(q, Raise(extraction.err))), documents_db)
           ELSE IF NoText(extraction.text)
           THEN Local(r, [q EXCEPT !.pc = "done",
                                   !.response = HTTPException(400,
                                       <<"No text content could be extracted from the file">>)])
           ELSE \E ctor \in Outcomes :
                    Step(r, InitializeEnter([q EXCEPT !.document_info = document_info,
                                                      !.statuses = <<"processing">>,
                                                      !.calls = @ \cup {"insert_document"}],
                                            ctor),
                         Register(documents_db, document_info))
    /\ UNCHANGED <<knowledge_bases_db, uuid_count, clock, response, call>>

\* Faulty variant of InvalidMode: the check is missing.
InvalidModeNever(mode) == FALSE

\* request.mode not in valid_modes (line 55)
InvalidMode(mode) == mode \notin valid_modes

\* chat_query, lines 50-65: the mode check and the call of
\* query_knowledge_graph up to its first await.
chat_query(r, mode) ==
    /\ Arrives(r)
    /\ LET q == [requests[r] EXCEPT !.kind = "chat", !.mode = mode]
       IN  IF InvalidMode(mode)
           THEN Local(r, [q EXCEPT !.pc = "done",
                                   !.response = [code |-> 400,
                                                 detail |-> <<"Invalid query mode. Must be one of">>,
                                                 modes |-> valid_modes]])
           ELSE \E ctor \in Outcomes :
                    Step(r, InitializeEnter([q EXCEPT !.calls = @ \cup {"query_knowledge_graph"}],
                                            ctor),
                         documents_db)
    /\ UNCHANGED <<knowledge_bases_db, uuid_count, clock, response, call>>

\* initialize_lightrag: initialize called on its own.
initialize_lightrag(r) ==
    /\ Arrives(r)
    /\ \E ctor \in Outcomes :
           Step(r, InitializeEnter([requests[r] EXCEPT !.kind = "initialize"], ctor),
                documents_db)
    /\ UNCHANGED <<knowledge_bases_db, uuid_count, clock, response, call>>

\* initialize resumes after await self.rag.initialize_storages() (line 80).
initialize_storages(r, outcome) ==
    /\ requests[r].pc = "initialize_storages"
    /\ IF outcome.ok
       THEN Local(r, [requests[r] EXCEPT !.pc = "initialize_pipeline_status"])
       ELSE Step(r, InitializeExcept(constructed, requests[r], outcome.err), documents_db)
    /\ UNCHANGED <<knowledge_bases_db, uuid_count, clock, response, call>>

\* initialize resumes after await initialize_pipeline_status() (line 84) and
\* returns; its caller goes on to the engine call.
initialize_pipeline_status(r, outcome) ==
    /\ requests[r].pc = "initialize_pipeline_status"
    /\ IF outcome.ok
       THEN Step(r, Adapter(rag, TRUE, constructed, AfterInitialize(requests[r], TRUE, rag)),
                 documents_db)
       ELSE Step(r, InitializeExcept(constructed, requests[r], outcome.err), documents_db)
    /\ UNCHANGED <<knowledge_bases_db, uuid_count, clock, response, call>>

\* insert_document resumes after await self.rag.ainsert(content) (line 119);
\* upload_document goes on to its response.
ainsert(r, outcome) ==
    /\ requests[r].pc = "ainsert"
    /\ Step(r, Adapter(rag, _initialized, constructed,
                       IF outcome.ok THEN Return(requests[r], Bool(TRUE))
                       ELSE InsertExcept(requests[r], outcome.err)),
            documents_db)
    /\ UNCHANGED <<knowledge_bases_db, uuid_count, clock, response, call>>

\* query_knowledge_graph resumes after await self.rag.aquery(...) (line
\* 158); chat_query goes on to its response.
aquery(r, outcome) ==
    /\ requests[r].pc = "aquery"
    /\ Step(r, Adapter(rag, _initialized, constructed,
                       IF outcome.ok THEN Return(requests[r], Str(<<"<engine answer>">>))
                       ELSE QueryExcept(requests[r], outcome.err)),
            documents_db)
    /\ UNCHANGED <<knowledge_bases_db, uuid_count, clock, response, call>>

\* Faulty variant of HasHandle: finalize does not look at the handle.
HandleAssumed(ragNow) == TRUE

\* if self.rag (line 199)
HasHandle(ragNow) == ragNow # 0

\* finalize, lines 198-201: nothing to do without a handle, else the await
\* of finalize_storages.
finalize_lightrag(r) ==
    /\ Arrives(r)
    /\ Local(r, [requests[r] EXCEPT !.kind = "finalize",
                                    !.calls = @ \cup {"finalize"},
                                    !.pc = IF HasHandle(rag) THEN "finalize_storages" ELSE "done"])
    /\ UNCHANGED <<knowledge_bases_db, uuid_count, clock, response, call>>

\* finalize resumes after await self.rag.finalize_storages() (lines
\* 202-206): the handle is dropped, or the exception is logged.
finalize_storages(r, outcome) ==
    /\ requests[r].pc = "finalize_storages"
    /\ Step(r, Adapter(IF outcome.ok THEN 0 ELSE rag,
                       IF outcome.ok THEN FALSE ELSE _initialized,
                       constructed,
                       [requests[r] EXCEPT !.pc = "done",
                                           !.error = outcome.err]),
            documents_db)
    /\ UNCHANGED <<knowledge_bases_db, uuid_count, clock, response, call>>

(***************************************************************************)
(* Request handlers without an await: each runs to its response in one     *)
(* piece and leaves the response in the variable response.                 *)
(***************************************************************************)

\* {k: v for k, v in doc_data.items() if k != "text_content"}
DocumentInfo(doc_data) ==
    [id |-> doc_data.id, filename |-> doc_data.filename, size |-> doc_data.size,
     text_length |-> doc_data.text_length, status |-> doc_data.status,
     upload_time |-> doc_data.upload_time]

Answer(op, id, code, body) == [op |-> op, id |-> id, code |-> code, body |-> body]

NotFound(op, id, detail) == Answer(op, id, 404, [detail |-> detail])

\* Handlers that only read or write the document registry.
DocumentHandler(answer, db) ==
    /\ response' = answer
    /\ documents_db' = db
    /\ UNCHANGED <<knowledge_bases_db, rag, _initialized, constructed, uuid_count,
                   clock, requests, call>>

\* list_documents, lines 179-188: the records in the order of the dict.
list_documents ==
    DocumentHandler(Answer("list_documents", 0, 200,
                           [documents |-> [i \in 1..Len(documents_db) |->
                                              DocumentInfo(documents_db[i])]]),
                    documents_db)

\* get_document, lines 208-219
get_document(document_id) ==
    DocumentHandler(IF ~Has(documents_db, document_id)
                    THEN NotFound("get_document", document_id, "Document not found")
                    ELSE Answer("get_document", document_id, 200,
                                DocumentInfo(Get(documents_db, document_id))),
                    documents_db)

\* get_document_status, lines 241-256
get_document_status(document_id) ==
    DocumentHandler(IF ~Has(documents_db, document_id)
                    THEN NotFound("get_document_status", document_id, "Document not found")
                    ELSE LET doc_data == Get(documents_db, document_id)
                         IN  Answer("get_document_status", document_id, 200,
                                    [document_id |-> document_id,
                                     filename |-> doc_data.filename,
                                     status |-> doc_data.status,
                                     upload_time |-> doc_data.upload_time,
                                     text_length |-> doc_data.text_length]),
                    documents_db)

\* delete_document, lines 278-293
delete_document(document_id) ==
    IF ~Has(documents_db, document_id)
    THEN DocumentHandler(NotFound("delete_document", document_id, "Document not found"),
                         documents_db)
    ELSE DocumentHandler(Answer("delete_document", document_id, 200,
                                [message |-> "deleted successfully",
                                 document_id |-> document_id]),
                         Del(documents_db, document_id))

(***************************************************************************)
(* Knowledge-base registry (routers/knowledge_base.py)                     *)
(***************************************************************************)

\* Names and descriptions the knowledge-base requests choose from.
KbNames == {"alpha", "beta"}

KbDescriptions == {None, "about"}

\* Handlers that only read or write the knowledge-base registry.
KnowledgeBaseHandler(answer, db) ==
    /\ response' = answer
    /\ knowledge_bases_db' = db
    /\ UNCHANGED <<documents_db, rag, _initialized, constructed, clock, requests, call>>

\* create_knowledge_base, lines 97-120
create_knowledge_base(name, description) ==
    /\ uuid_count < MaxUuid
    /\ uuid_count' = uuid_count + 1
    /\ LET kb_id == uuid_count + 1
           now == clock
           kb_info == [id |-> kb_id, name |-> name, description |-> description,
                       created_date |-> now, last_updated |-> now,
                       document_count |-> 0, entity_count |-> 0,
                       relationship_count |-> 0, status |-> "active"]
       IN  KnowledgeBaseHandler(Answer("create_knowledge_base", kb_id, 200, kb_info),
                                Put(knowledge_bases_db, kb_id, kb_info))

\* get_knowledge_base, lines 165-169
get_knowledge_base(kb_id) ==
    /\ KnowledgeBaseHandler(IF ~Has(knowledge_bases_db, kb_id)
                            THEN NotFound("get_knowledge_base", kb_id, "Knowledge base not found")
                            ELSE Answer("get_knowledge_base", kb_id, 200,
                                        Get(knowledge_bases_db, kb_id)),
                            knowledge_bases_db)
    /\ UNCHANGED uuid_count

\* Faulty variant of UpdateFields: a field the request leaves out is cleared.
UpdateFieldsOverwrites(kb_info, name, description, now) ==
    [kb_info EXCEPT !.name = name, !.description = description, !.last_updated = now]

\* Faulty variant of UpdateFields: the timestamp goes to the wrong field.
UpdateFieldsStampsCreation(kb_info, name, description, now) ==
    [kb_info EXCEPT !.name = IF name # None THEN name ELSE @,
                    !.description = IF description # None THEN description ELSE @,
                    !.created_date = now]

\* update_knowledge_base, lines 199-206: the fields the request provides,
\* and the timestamp.
UpdateFields(kb_info, name, description, now) ==
    [kb_info EXCEPT !.name = IF name # None THEN name ELSE @,
                    !.description = IF description # None THEN description ELSE @,
                    !.last_updated = now]

\* update_knowledge_base, lines 193-210: name and description are None when
\* the request leaves them out.
update_knowledge_base(kb_id, name, description) ==
    /\ IF ~Has(knowledge_bases_db, kb_id)
       THEN KnowledgeBaseHandler(NotFound("update_knowledge_base", kb_id,
                                          "Knowledge base not found"),
                                 knowledge_bases_db)
       ELSE LET kb_info == UpdateFields(Get(knowledge_bases_db, kb_id), name,
                                        description, clock)
            IN  KnowledgeBaseHandler(Answer("update_knowledge_base", kb_id, 200, kb_info),
                                     Put(knowledge_bases_db, kb_id, kb_info))
    /\ UNCHANGED uuid_count

\* delete_knowledge_base, lines 233-248
delete_knowledge_base(kb_id) ==
    /\ IF ~Has(knowledge_bases_db, kb_id)
       THEN KnowledgeBaseHandler(NotFound("delete_knowledge_base", kb_id,
                                          "Knowledge base not found"),
                                 knowledge_bases_db)
       ELSE KnowledgeBaseHandler(Answer("delete_knowledge_base", kb_id, 200,
                                        [message |-> "deleted successfully"]),
                                 Del(knowledge_bases_db, kb_id))
    /\ UNCHANGED uuid_count

\* The methods of LightRAGService.
ServiceMethods ==
    {"initialize", "insert_document", "query_knowledge_graph", "get_stats", "finalize"}

\* Attribute access on a dict of the document registry (doc.status,
\* x.upload_date): a dict has keys, not attributes, so it raises.
DictAttributeRaises(docs) == Len(docs) > 0

\* get_knowledge_base_stats, lines 279-322: the statistics computed from the
\* service and the document registry.  The branch raises when the service
\* lacks the method it calls, or when the comprehension at line 290 reads
\* the attribute status of a dict.
StatsRaises(method, docs) == method \notin ServiceMethods \/ DictAttributeRaises(docs)

\* len([doc for doc in documents_db.values() if doc.status == "completed"])
\* where no attribute access raises: there is no document.
CompletedCount(docs) == Cardinality({i \in 1..Len(docs) : docs[i].status = "completed"})

KnowledgeBaseStats(kb_info, total_documents) ==
    [id |-> kb_info.id, name |-> kb_info.name, total_documents |-> total_documents,
     total_entities |-> 0, total_relationships |-> 0, recent_documents |-> << >>]

\* get_knowledge_base_stats, lines 271-343: the except clause at line 325
\* answers with the stored document_count and leaves the record alone.
get_knowledge_base_stats(kb_id) ==
    /\ IF ~Has(knowledge_bases_db, kb_id)
       THEN KnowledgeBaseHandler(NotFound("get_knowledge_base_stats", kb_id,
                                          "Knowledge base not found"),
                                 knowledge_bases_db)
       ELSE LET kb_info == Get(knowledge_bases_db, kb_id)
                total_documents == CompletedCount(documents_db)
            IN  IF StatsRaises("get_knowledge_graph_stats", documents_db)
                THEN KnowledgeBaseHandler(
                         Answer("get_knowledge_base_stats", kb_id, 200,
                                KnowledgeBaseStats(kb_info, kb_info.document_count)),
                         knowledge_bases_db)
                ELSE KnowledgeBaseHandler(
                         Answer("get_knowledge_base_stats", kb_id, 200,
                                KnowledgeBaseStats(kb_info, total_documents)),
                         Put(knowledge_bases_db, kb_id,
                             [kb_info EXCEPT !.document_count = total_documents,
                                             !.last_updated = clock]))
    /\ UNCHANGED uuid_count

\* Time passes.
Tick ==
    /\ clock < MaxClock
    /\ clock' = clock + 1
    /\ UNCHANGED <<documents_db, knowledge_bases_db, rag, _initialized, constructed,
                   uuid_count, requests, response, call>>

(***************************************************************************)
(* Specification                                                           *)
(***************************************************************************)

\* upload_document and the awaits below it.
Upload ==
    \/ \E r \in Req, f \in WorkflowFiles : upload_document(r, f)
    \/ \E r \in Req : upload_document_read(r)
    \/ \E r \in Req, outcome \in Outcomes : ainsert(r, outcome)

\* chat_query and the await below it.
Chat ==
    \/ \E r \in Req, mode \in ChatModes : chat_query(r, mode)
    \/ \E r \in Req, outcome \in Outcomes : aquery(r, outcome)

\* The awaits of the lazy initialization.
Initialize ==
    \/ \E r \in Req, outcome \in Outcomes : initialize_storages(r, outcome)
    \/ \E r \in Req, outcome \in Outcomes : initialize_pipeline_status(r, outcome)

\* initialize and finalize called on their own.
Lifecycle ==
    \/ \E r \in Req : initialize_lightrag(r)
    \/ \E r \in Req : finalize_lightrag(r)
    \/ \E r \in Req, outcome \in Outcomes : finalize_storages(r, outcome)

KnowledgeBases ==
    \/ \E name \in KbNames, description \in KbDescriptions :
           create_knowledge_base(name, description)
    \/ \E id \in Uuids : get_knowledge_base(id)
    \/ \E id \in Uuids, name \in KbNames \cup {None}, description \in KbDescriptions :
           update_knowledge_base(id, name, description)
    \/ \E id \in Uuids : delete_knowledge_base(id)

\* The ingestion workflow with the document registry.
Next ==
    \/ Upload
    \/ Initialize
    \/ \E id \in Uuids : get_document(id)
    \/ \E id \in Uuids : get_document_status(id)
    \/ \E id \in Uuids : delete_document(id)

Spec == Init /\ [][Next]_vars

\* The query workflow.
NextChat == Chat \/ Initialize

SpecChat == Init /\ [][NextChat]_vars

\* The adapter under every caller, with its whole lifecycle.
NextAdapter == Upload \/ Chat \/ Initialize \/ Lifecycle

SpecAdapter == Init /\ [][NextAdapter]_vars

\* The adapter before any request: no handle, nothing constructed, and one
\* coroutine slot for every caller of initialize.
InitCallers ==
    /\ documents_db = << >>
    /\ knowledge_bases_db = << >>
    /\ rag = 0
    /\ _initialized = FALSE
    /\ constructed = 0
    /\ uuid_count = 0
    /\ clock = 0
    /\ requests = [r \in Callers |-> Idle]
    /\ response = NoAnswer
    /\ call = NoCall

\* Calls of initialize alone, any number of them in flight.
NextInitialize ==
    \/ \E r \in Callers : initialize_lightrag(r)
    \/ \E r \in Callers, outcome \in Outcomes : initialize_storages(r, outcome)
    \/ \E r \in Callers, outcome \in Outcomes : initialize_pipeline_status(r, outcome)

SpecInitialize == InitCallers /\ [][NextInitialize]_vars

\* The bytes of the buffers given to the text extractor: a space, the
\* letter h, and a byte that is no UTF-8 on its own (e acute in Latin-1).
ContentBytes == {32, 104, 233}

Contents == UNION {[1..n -> ContentBytes] : n \in 0..MaxContentLen}

\* "hi" and two spaces: what the parsers find in a document.
Hi == <<104, 105>>

Blank == <<32, 32>>

\* A page with text, and a page for which extract_text() returns None.
Page(t) == [kind |-> "text", text |-> t]

NoTextPage == [kind |-> "none", text |-> << >>]

\* What a PDF library makes of the buffer.
PdfLibs ==
    {NoPdf} \cup {[open_raises |-> FALSE, pages |-> p] :
                     p \in {<< >>, <<Page(Hi)>>, <<Page(Blank)>>, <<NoTextPage>>,
                            <<Page(HelloWorld)>>}}

\* What python-docx makes of the buffer.
DocxLibs ==
    {NoDocx} \cup {[raises |-> FALSE, paragraphs |-> p, tables |-> t] :
                      p \in {<< >>, <<Hi>>, <<Blank>>, <<HelloWorld>>},
                      t \in {<< >>, << << <<Hi, Hi>> >> >>}}

\* Libraries that find "hello world" in the buffer, whatever the format.
GoodPdf == [open_raises |-> FALSE, pages |-> <<Page(HelloWorld)>>]

GoodLib ==
    [pdfplumber |-> GoodPdf, pypdf2 |-> GoodPdf,
     docx |-> [raises |-> FALSE, paragraphs |-> <<HelloWorld>>, tables |-> << >>]]

\* Names whose extension is one of the four in another case: a.PDF, A.Docx,
\* a.TXT, a.Md.
MixedCaseNames ==
    {<<97, 46, 80, 68, 70>>, <<65, 46, 68, 111, 99, 120>>, <<97, 46, 84, 88, 84>>,
     <<97, 46, 77, 100>>}

\* Names with another extension or none: data.bin, a.pdfx, a.doc, README,
\* the hidden file .txt, and a.txt. with its trailing dot.
OtherNames ==
    {<<100, 97, 116, 97, 46, 98, 105, 110>>, <<97>> \o DotPdf \o <<120>>,
     <<97, 46, 100, 111, 99>>, <<82, 69, 65, 68, 77, 69>>, DotTxt,
     <<97>> \o DotTxt \o <<46>>}

\* extract_text_from_file(file_content, filename), about to run.
ExtractCall(file_content, filename, lib) ==
    [fn |-> "extract_text_from_file", pc |-> "called", file_content |-> file_content,
     filename |-> filename, lib |-> lib, invoked |-> {}, result |-> NoResult]

\* The calls studied: a.txt and A.MD with every short buffer and two longer
\* ones, a.pdf and a.docx with every behaviour of their libraries, and the
\* names in another case or with another extension with libraries that
\* would find a text.
ExtractCalls ==
    {ExtractCall(c, f, NoLib) :
         c \in Contents \cup {HelloWorld, TestDocument},
         f \in {<<97>> \o DotTxt, <<65, 46, 77, 68>>}}
    \cup {ExtractCall(<<37>>, <<97>> \o DotPdf,
                      [pdfplumber |-> a, pypdf2 |-> b, docx |-> NoDocx]) :
              a \in PdfLibs, b \in PdfLibs}
    \cup {ExtractCall(<<37>>, <<97>> \o DotDocx,
                      [pdfplumber |-> NoPdf, pypdf2 |-> NoPdf, docx |-> d]) :
              d \in DocxLibs}
    \cup {ExtractCall(c, f, GoodLib) :
              c \in {HelloWorld, << >>}, f \in MixedCaseNames \cup OtherNames}

\* The buffers given to extract_text_from_txt: the bytes above and 0x85,
\* which is the blank NEL in Latin-1 and an ellipsis in CP1252.
TxtContents ==
    UNION {[1..n -> ContentBytes \cup {133}] : n \in 0..MaxContentLen} \cup {HelloWorld}

\* extract_text_from_txt(file_content), about to run.
TxtCalls ==
    {[fn |-> "extract_text_from_txt", pc |-> "called", file_content |-> c,
      result |-> NoResult] : c \in TxtContents}

\* The texts given to clean_text: the control character SOH, a newline, a
\* space and the letter h.
CleanTexts == UNION {[1..n -> {1, 10, 32, 104}] : n \in 0..MaxContentLen}

\* clean_text(text), about to run.
CleanCalls ==
    {[fn |-> "clean_text", pc |-> "called", text |-> s, result |-> NoResult] :
         s \in CleanTexts}

\* A page whose extract_text() raises.
RaisingPage == [kind |-> "raise", text |-> << >>]

\* What pdfplumber makes of the buffer given to extract_text_from_pdf: as
\* above, or a first page with text and a second page that raises.
PlumberLibs ==
    PdfLibs \cup {[open_raises |-> FALSE, pages |-> <<Page(Hi), RaisingPage>>]}

\* extract_text_from_pdf(file_content), about to run.
PdfCalls ==
    {[fn |-> "extract_text_from_pdf", pc |-> "called",
      lib |-> [pdfplumber |-> a, pypdf2 |-> b, docx |-> NoDocx], result |-> NoResult] :
         a \in PlumberLibs, b \in PdfLibs}

\* The services at rest and one call of the text extractor about to run.
InitExtractor ==
    /\ documents_db = << >>
    /\ knowledge_bases_db = << >>
    /\ rag = 0
    /\ _initialized = FALSE
    /\ constructed = 0
    /\ uuid_count = 0
    /\ clock = 0
    /\ requests = [r \in Req |-> Idle]
    /\ response = NoAnswer
    /\ call \in ExtractCalls \cup TxtCalls \cup CleanCalls \cup PdfCalls

\* extract_text_from_file runs to its return or to its exception.
CallExtractText ==
    /\ call.fn = "extract_text_from_file" /\ call.pc = "called"
    /\ call' = [call EXCEPT !.pc = "returned",
                            !.invoked = Invoked(call.file_content, call.filename,
                                                call.lib),
                            !.result = extract_text_from_file(call.file_content,
                                                              call.filename, call.lib)]
    /\ UNCHANGED <<documents_db, knowledge_bases_db, rag, _initialized, constructed,
                   uuid_count, clock, requests, response>>

\* extract_text_from_txt runs to its return or to its exception.
CallExtractTxt ==
    /\ call.fn = "extract_text_from_txt" /\ call.pc = "called"
    /\ call' = [call EXCEPT !.pc = "returned",
                            !.result = extract_text_from_txt(call.file_content)]
    /\ UNCHANGED <<documents_db, knowledge_bases_db, rag, _initialized, constructed,
                   uuid_count, clock, requests, response>>

\* clean_text runs to its return.
CallCleanText ==
    /\ call.fn = "clean_text" /\ call.pc = "called"
    /\ call' = [call EXCEPT !.pc = "returned", !.result = Extracted(clean_text(call.text))]
    /\ UNCHANGED <<documents_db, knowledge_bases_db, rag, _initialized, constructed,
                   uuid_count, clock, requests, response>>

\* extract_text_from_pdf runs to its return or to its exception.
CallExtractPdf ==
    /\ call.fn = "extract_text_from_pdf" /\ call.pc = "called"
    /\ call' = [call EXCEPT !.pc = "returned", !.result = extract_text_from_pdf(call.lib)]
    /\ UNCHANGED <<documents_db, knowledge_bases_db, rag, _initialized, constructed,
                   uuid_count, clock, requests, response>>

\* The text extractor and its parts on their own.
NextExtractor ==
    \/ CallExtractText
    \/ CallExtractTxt
    \/ CallCleanText
    \/ CallExtractPdf

SpecExtractor == InitExtractor /\ [][NextExtractor]_vars

\* Creation and deletion in the two registries.
NextRegistry ==
    \/ Upload
    \/ Initialize
    \/ \E id \in Uuids : delete_document(id)
    \/ \E name \in KbNames, description \in KbDescriptions :
           create_knowledge_base(name, description)
    \/ \E id \in Uuids : delete_knowledge_base(id)

SpecRegistry == Init /\ [][NextRegistry]_vars

\* Uploads of the test document, and their retrieval.
NextScenario ==
    \/ \E r \in Req : upload_document(r, ScenarioFile)
    \/ \E r \in Req : upload_document_read(r)
    \/ \E r \in Req, outcome \in Outcomes : ainsert(r, outcome)
    \/ Initialize
    \/ \E id \in Uuids : get_document(id)

SpecScenario == Init /\ [][NextScenario]_vars

\* Knowledge-base statistics over the documents that uploads leave.
NextStats ==
    \/ Upload
    \/ Initialize
    \/ \E name \in KbNames, description \in KbDescriptions :
           create_knowledge_base(name, description)
    \/ \E id \in Uuids : get_knowledge_base_stats(id)

SpecStats == Init /\ [][NextStats]_vars

\* The knowledge-base registry over time.
NextKnowledgeBase ==
    \/ KnowledgeBases
    \/ \E id \in Uuids : get_knowledge_base_stats(id)
    \/ list_documents
    \/ Tick

SpecKnowledgeBase == Init /\ [][NextKnowledgeBase]_vars

\* Uploads of notes.txt, deletes and listings while the clock advances.
NextListing ==
    \/ \E r \in Req : upload_document(r, 1)
    \/ \E r \in Req : upload_document_read(r)
    \/ \E r \in Req, outcome \in Outcomes : ainsert(r, outcome)
    \/ Initialize
    \/ \E id \in Uuids : delete_document(id)
    \/ list_documents
    \/ Tick

SpecListing == Init /\ [][NextListing]_vars

\* Uploads of notes.txt and of tiny.txt on their own.
NextIngestion ==
    \/ \E r \in Req, f \in {1, 2} : upload_document(r, f)
    \/ \E r \in Req : upload_document_read(r)
    \/ \E r \in Req, outcome \in Outcomes : ainsert(r, outcome)
    \/ Initialize

\* The coroutine of request r is resumed when the engine call it awaits
\* inside insert_document is over.
Resume(r) ==
    \/ \E outcome \in Outcomes : initialize_storages(r, outcome)
    \/ \E outcome \in Outcomes : initialize_pipeline_status(r, outcome)
    \/ \E outcome \in Outcomes : ainsert(r, outcome)

\* Concurrent uploads on their own.
SpecIngestion == Init /\ [][NextIngestion]_vars

\* The ingestion workflow when every awaited engine call returns or raises:
\* the event loop resumes a coroutine whose awaitable is done.
SpecIngestionFair ==
    Init /\ [][NextIngestion]_vars /\ \A r \in Req : WF_vars(Resume(r))

(***************************************************************************)
(* Properties                                                              *)
(***************************************************************************)

\* An upload coroutine suspended inside insert_document.
InInsert(q) ==
    /\ q.kind = "upload"
    /\ q.pc \in {"initialize_storages", "initialize_pipeline_status", "ainsert"}

\* The extraction of the upload of request slot q.
ExtractionOf(q) ==
    extract_text_from_file(Files[q.file].content, Files[q.file].filename, Files[q.file].lib)

\* C1: an upload whose extraction succeeds creates one record under an id no
\* other request or record has; upload steps add no other key and remove
\* none; when the upload returns the record has gone from processing to
\* completed (insert returned true) or to failed (insert returned false) and
\* is in the registry with the text_length and status of the response; a
\* get_document that finds it after the return reports the same two values.
C1_UploadStep ==
    \A r \in Req :
        LET q == requests[r]
            q2 == requests'[r]
            id == q2.document_id
        IN  /\ (q.pc = "read" /\ q2.statuses # <<>>) =>
                   /\ ~Has(documents_db, id)
                   /\ \A o \in Req \ {r} : requests[o].document_id # id
                   /\ Keys(documents_db') = Keys(documents_db) \cup {id}
                   /\ q2.statuses[1] = "processing"
            /\ (q2.kind = "upload" /\ q2 # q) =>
                   /\ Keys(documents_db) \subseteq Keys(documents_db')
                   /\ Keys(documents_db') \subseteq Keys(documents_db) \cup {id}
                   /\ Cardinality(Keys(documents_db')) = Len(documents_db')
            /\ (q2.kind = "upload" /\ q.pc # "done" /\ q2.pc = "done" /\ q2.statuses # <<>>) =>
                   /\ q2.result.kind = "bool"
                   /\ q2.statuses = <<"processing",
                                      IF q2.result.value THEN "completed" ELSE "failed">>
                   /\ q2.response.code = 200
                   /\ q2.response.status = q2.statuses[2]
                   /\ Has(documents_db', id)
                   /\ Get(documents_db', id).status = q2.response.status
                   /\ Get(documents_db', id).text_length = q2.response.text_length
            /\ (/\ q.kind = "upload" /\ q.pc = "done" /\ q.response.code = 200
                /\ Has(documents_db, q.document_id)
                /\ get_document(q.document_id)) =>
                   /\ response'.code = 200
                   /\ response'.body.status = q.response.status
                   /\ response'.body.text_length = q.response.text_length

C1_UploadCreatesOneRecord == [][C1_UploadStep]_vars

C1_Witness ==
    \E r \in Req :
        /\ requests[r].kind = "upload" /\ requests[r].pc = "done"
        /\ requests[r].response.code = 200
        /\ requests[r].response.status = "completed"
        /\ response.op = "get_document" /\ response.code = 200
        /\ response.id = requests[r].document_id
        /\ response.body.status = "completed"
        /\ response.body.text_length = 11

\* C2: a chat request with a valid mode during which the engine failed
\* (initialization or the query raised) is answered with 200, success false
\* and an apology that contains the message of the exception.
C2_EngineFailureReported ==
    \A r \in Req :
        LET q == requests[r]
        IN  (/\ q.kind = "chat" /\ q.pc = "done"
             /\ q.mode \in {"local", "global", "hybrid", "naive", "mix"}
             /\ q.error # "") =>
                /\ q.response.code = 200
                /\ q.response.success = FALSE
                /\ \E i \in 1..Len(q.response.response) : q.response.response[i] = q.error

\* C3: an upload with a filename and a non-empty buffer whose text
\* extraction fails is answered with 400 and has no record.
C3_ExtractionFailureIs400 ==
    \A r \in Req :
        LET q == requests[r]
        IN  (/\ q.kind = "upload" /\ q.pc = "done"
             /\ Files[q.file].filename # <<>>
             /\ Files[q.file].content # <<>>
             /\ ~ExtractionOf(q).ok) =>
                /\ q.response.code = 400
                /\ ~Has(documents_db, q.document_id)

\* C4: a chat request with a mode outside the five valid ones is answered
\* with 400 and the list of the five, in one step that calls no adapter
\* function and leaves the adapter as it was.
C4_InvalidModeStep ==
    \A r \in Req :
        LET q == requests[r]
            q2 == requests'[r]
        IN  (/\ q2.kind = "chat" /\ q2 # q
             /\ q2.mode \notin {"local", "global", "hybrid", "naive", "mix"}) =>
                /\ q2.pc = "done"
                /\ q2.response.code = 400
                /\ q2.response.modes = {"local", "global", "hybrid", "naive", "mix"}
                /\ q2.calls = {}
                /\ UNCHANGED <<rag, _initialized, constructed>>

C4_InvalidModeNeverCallsAdapter == [][C4_InvalidModeStep]_vars

C4_Witness ==
    \E r \in Req :
        /\ requests[r].kind = "chat" /\ requests[r].pc = "done"
        /\ requests[r].mode = "bogus"
        /\ requests[r].response.code = 400
        /\ _initialized /\ rag # 0

\* C5: every step of an upload without filename or with an empty buffer
\* leaves the document registry as it was and calls no insert; the upload
\* ends with 400 and never has a record.
C5_EmptyUploadStep ==
    \A r \in Req :
        LET q == requests[r]
            q2 == requests'[r]
        IN  (/\ q2.kind = "upload" /\ q2 # q
             /\ (Files[q2.file].filename = <<>> \/ Files[q2.file].content = <<>>)) =>
                /\ documents_db' = documents_db
                /\ "insert_document" \notin q2.calls
                /\ q2.statuses = <<>>
                /\ q2.pc \in {"read", "done"}
                /\ (q2.pc = "done" => q2.response.code = 400)

C5_EmptyUploadRejected == [][C5_EmptyUploadStep]_vars

C5_Witness ==
    \E r \in Req :
        /\ requests[r].kind = "upload" /\ requests[r].pc = "done"
        /\ Files[requests[r].file].filename # <<>>
        /\ Files[requests[r].file].content = <<>>
        /\ requests[r].response.code = 400
        /\ Len(documents_db) = 1

\* C6: when an upload suspends inside insert_document its record is in the
\* registry with status processing; while it is suspended the record, as
\* long as it is registered, stays processing, and a get_document_status for
\* its id answers processing (or 404 once a delete has removed the record),
\* never completed, failed or error.
C6_InsertStep ==
    \A r \in Req :
        LET q == requests[r]
            q2 == requests'[r]
        IN  /\ (InInsert(q2) /\ ~InInsert(q)) =>
                   /\ Has(documents_db', q2.document_id)
                   /\ Get(documents_db', q2.document_id).status = "processing"
            /\ (InInsert(q2) /\ Has(documents_db', q2.document_id)) =>
                   Get(documents_db', q2.document_id).status = "processing"
            /\ (InInsert(q) /\ get_document_status(q.document_id)) =>
                   IF Has(documents_db, q.document_id)
                   THEN response'.code = 200 /\ response'.body.status = "processing"
                   ELSE response'.code = 404

C6_ProcessingWhileInserting == [][C6_InsertStep]_vars

C6_Witness ==
    \E r \in Req :
        /\ InInsert(requests[r]) /\ requests[r].pc = "ainsert"
        /\ response.op = "get_document_status" /\ response.code = 200
        /\ response.id = requests[r].document_id
        /\ response.body.status = "processing"

\* C7: every registered record has one of the four statuses; the first
\* status a record gets is processing and no status is written after
\* completed, failed or error; a registered record with one of these three
\* keeps it until delete_document removes the record.
C7_StatusStep ==
    /\ \A i \in 1..Len(documents_db') :
           documents_db'[i].status \in {"processing", "completed", "failed", "error"}
    /\ \A r \in Req :
           LET written == requests'[r].statuses
           IN  written # <<>> =>
                   /\ written[1] = "processing"
                   /\ \A i \in 1..Len(written) :
                          /\ written[i] \in {"processing", "completed", "failed", "error"}
                          /\ i > 1 => written[i] # "processing"
                          /\ i < Len(written) => written[i] = "processing"
    /\ \A id \in Uuids :
           (/\ Has(documents_db, id)
            /\ Get(documents_db, id).status \in {"completed", "failed", "error"}) =>
               IF Has(documents_db', id)
               THEN Get(documents_db', id).status = Get(documents_db, id).status
               ELSE delete_document(id)

C7_StatusLifecycle == [][C7_StatusStep]_vars

C7_Witness ==
    \E r \in Req :
        /\ requests[r].statuses = <<"processing", "failed">>
        /\ response.op = "get_document_status" /\ response.code = 200
        /\ response.id = requests[r].document_id
        /\ response.body.status = "failed"
        /\ \E o \in Req : requests[o].statuses = <<"processing", "completed">>

\* C8: a chat request is answered with 200 exactly when its mode is one of
\* the five valid ones, whatever the engine did.
C8_ValidModeAlways200 ==
    \A r \in Req :
        LET q == requests[r]
        IN  (q.kind = "chat" /\ q.pc = "done") =>
                (q.response.code = 200
                    <=> q.mode \in {"local", "global", "hybrid", "naive", "mix"})

C8_Witness ==
    \E r, o \in Req :
        /\ requests[r].kind = "chat" /\ requests[r].pc = "done"
        /\ requests[r].error = "engine error"
        /\ requests[r].response.code = 200
        /\ requests[o].kind = "chat" /\ requests[o].pc = "done"
        /\ requests[o].error = AttributeError
        /\ requests[o].response.code = 200

\* C9: delete_document and delete_knowledge_base of an id that is not in the
\* registry answer 404 and leave the registry as it was; of an id that is,
\* they answer 200 and leave the registry without the id, so that the same
\* delete, called again, answers 404.
C9_DeleteStep ==
    \A id \in Uuids :
        /\ delete_document(id) =>
               IF Has(documents_db, id)
               THEN response'.code = 200 /\ ~Has(documents_db', id)
               ELSE response'.code = 404 /\ documents_db' = documents_db
        /\ delete_knowledge_base(id) =>
               IF Has(knowledge_bases_db, id)
               THEN response'.code = 200 /\ ~Has(knowledge_bases_db', id)
               ELSE response'.code = 404 /\ knowledge_bases_db' = knowledge_bases_db

C10_AdapterNeverRaises ==
    \A r \in Req :
        LET q == requests[r]
        IN  q.pc = "done" =>
                /\ "insert_document" \in q.calls =>
                       /\ q.result.kind = "bool"
                       /\ q.error # "" => q.result.value = FALSE
                       /\ q.response.code = 200
                /\ "query_knowledge_graph" \in q.calls =>
                       /\ q.result.kind = "str"
                       /\ q.response.code = 200
                       /\ q.response.success

C10_Witness ==
    \E r, o \in Req :
        /\ requests[r].kind = "upload" /\ requests[r].pc = "done"
        /\ requests[r].error = "engine error"
        /\ requests[r].result = Bool(FALSE)
        /\ requests[o].kind = "chat" /\ requests[o].pc = "done"
        /\ requests[o].error = "engine error"
        /\ requests[o].result.kind = "str"

\* C11: a record's status becomes 'error' only in the step in which an
\* exception that is no HTTPException reaches the handler of the upload
\* that created the record, and that upload is answered with 500; an upload
\* answered with 500 writes 'error' to its record if the record is in the
\* registry, and changes nothing in the registry if it never created one.
C11_ErrorStep ==
    /\ \A i \in 1..Len(documents_db') :
           LET d == documents_db'[i]
           IN  d.status = "error" =>
                   \/ Has(documents_db, d.id) /\ Get(documents_db, d.id).status = "error"
                   \/ \E r \in Req :
                          /\ requests[r].kind = "upload"
                          /\ requests[r].document_id = d.id
                          /\ requests[r].statuses # <<>>
                          /\ requests[r].pc # "done" /\ requests'[r].pc = "done"
                          /\ requests'[r].response.code = 500
    /\ \A r \in Req :
           LET q == requests[r]
               q2 == requests'[r]
               id == q2.document_id
           IN  /\ (q2.kind = "upload" /\ q.pc # "done" /\ q2.pc = "done"
                   /\ q2.response.code = 500) =>
                      /\ q2.response.detail[1] = "Error processing document"
                      /\ Has(documents_db, id) =>
                             /\ Has(documents_db', id)
                             /\ Get(documents_db', id).status = "error"
                      /\ ~Has(documents_db, id) => documents_db' = documents_db
               /\ (/\ q2.kind = "upload" /\ q2.statuses # q.statuses
                   /\ q2.statuses[Len(q2.statuses)] = "error") =>
                      q2.response.code = 500

C12_GenericFailureDetail ==
    \A r, o \in Req :
        (/\ requests[r].kind = "upload" /\ requests[r].pc = "done"
         /\ requests[r].response.code = 500
         /\ requests[o].kind = "upload" /\ requests[o].pc = "done"
         /\ requests[o].response.code = 500) =>
            requests[r].response.detail = requests[o].response.detail

\* C13: once a call of initialize has returned true and no finalize has been
\* called, every call of initialize that arrives later returns true in one
\* piece: it constructs no engine, awaits neither initialization, and
\* leaves the handle and the flag as they were.
C13_LaterCallStep ==
    \A r \in Callers :
        (/\ requests[r].pc = "idle" /\ requests'[r].pc # "idle"
         /\ requests'[r].kind = "initialize"
         /\ \A o \in Callers : requests[o].kind # "finalize"
         /\ \E o \in Callers :
                /\ requests[o].kind = "initialize" /\ requests[o].pc = "done"
                /\ requests[o].result = Bool(TRUE)) =>
            /\ requests'[r].pc = "done"
            /\ requests'[r].result = Bool(TRUE)
            /\ constructed' = constructed
            /\ rag' = rag
            /\ _initialized' = _initialized

C13_InitializeIdempotent == [][C13_LaterCallStep]_vars

\* C14: a call of initialize that fails (in the constructor, in
\* initialize_storages or in initialize_pipeline_status) returns false to
\* its caller in the same step, without an engine call, and leaves the flag
\* false and the handle None; a call that then enters initialize on the
\* adapter so left does not return early: it constructs an engine again, or
\* fails in the constructor.
C14_FailureStep ==
    \A r \in Req :
        LET q == requests[r]
            q2 == requests'[r]
        IN  /\ (/\ q.pc \in {"idle", "read", "initialize_storages", "initialize_pipeline_status"}
                /\ q2.kind \in {"initialize", "upload", "chat"}
                /\ q.error = "" /\ q2.error \in EngineErrors) =>
                   /\ rag' = 0
                   /\ _initialized' = FALSE
                   /\ q2.pc = "done"
                   /\ q2.kind = "initialize" => q2.result = Bool(FALSE)
                   /\ q2.kind = "upload" =>
                          q2.result = Bool(FALSE) /\ q2.response.status = "failed"
                   /\ q2.kind = "chat" =>
                          q2.result.kind = "str" /\ q2.response.code = 200
            /\ (/\ "initialize" \in q2.calls \ q.calls
                /\ rag = 0 /\ ~_initialized
                /\ \E o \in Req : requests[o].pc = "done" /\ requests[o].error \in EngineErrors) =>
                   \/ constructed' = constructed + 1 /\ rag' = constructed'
                                                     /\ q2.pc = "initialize_storages"
                   \/ constructed' = constructed /\ q2.error \in EngineErrors

C14_FailureLeavesUninitialized == [][C14_FailureStep]_vars

C14_Witness ==
    /\ requests[1].kind = "initialize" /\ requests[1].pc = "done"
    /\ requests[1].result = Bool(FALSE)
    /\ requests[1].error \in EngineErrors
    /\ constructed = 1
    /\ requests[2].kind = "upload" /\ requests[2].pc = "done"
    /\ requests[2].response.code = 200
    /\ requests[2].response.status = "completed"
    /\ _initialized /\ rag = 1

\* C15: finalize called when no engine was ever constructed ends in one
\* piece: it awaits no engine call, catches no exception, and leaves the
\* flag false and the handle None.
C15_FinalizeStep ==
    \A r \in Req :
        (/\ requests[r].pc = "idle" /\ requests'[r].kind = "finalize"
         /\ constructed = 0) =>
            /\ requests'[r].pc = "done"
            /\ requests'[r].error = ""
            /\ requests'[r].result = NoResult
            /\ rag' = 0 /\ rag = 0
            /\ _initialized' = FALSE /\ _initialized = FALSE
            /\ constructed' = 0

C15_FinalizeUninitializedNoOp == [][C15_FinalizeStep]_vars

C15_Witness ==
    \E r \in Req :
        /\ requests[r].kind = "finalize" /\ requests[r].pc = "done"
        /\ constructed = 0 /\ rag = 0 /\ ~_initialized
        /\ \E o \in Req : requests[o].kind = "initialize" /\ requests[o].pc = "done"

\* The fields of a knowledge-base record that an update of the name alone
\* must leave as they are.
KeptByRename(kb_info) ==
    [id |-> kb_info.id, description |-> kb_info.description,
     created_date |-> kb_info.created_date, document_count |-> kb_info.document_count,
     entity_count |-> kb_info.entity_count,
     relationship_count |-> kb_info.relationship_count, status |-> kb_info.status]

\* A get that directly follows the create of the same id answers with the
\* record create answered with; an update that provides only a name changes
\* the name, keeps every field but name and last_updated, and sets
\* last_updated to a value that is later than before (strict) or not
\* earlier than before.
C16_Step(strict) ==
    \A id \in Uuids :
        /\ (/\ response.op = "create_knowledge_base" /\ response.id = id
            /\ get_knowledge_base(id)) =>
               /\ response'.code = 200
               /\ response'.body = response.body
               /\ Get(knowledge_bases_db', id) = response.body
        /\ \A name \in KbNames :
               (Has(knowledge_bases_db, id) /\ update_knowledge_base(id, name, None)) =>
                   LET old == Get(knowledge_bases_db, id)
                       new == Get(knowledge_bases_db', id)
                   IN  /\ response'.code = 200 /\ response'.body = new
                       /\ new.name = name
                       /\ KeptByRename(new) = KeptByRename(old)
                       /\ IF strict THEN new.last_updated > old.last_updated
                          ELSE new.last_updated >= old.last_updated

\* C16 (as stated): create then get round-trips every field; an update of
\* the name alone keeps every other field and sets last_updated to a value
\* later than before.
C16_RenameAdvancesLastUpdated == [][C16_Step(TRUE)]_vars

\* C16 (amended): create then get round-trips every field; an update of the
\* name alone keeps every other field and sets last_updated to the time of
\* the update, which is not earlier than the value before.
C16_RenameRefreshesLastUpdated == [][C16_Step(FALSE)]_vars

C16_Witness ==
    /\ response.op = "update_knowledge_base" /\ response.code = 200
    /\ Has(knowledge_bases_db, response.id)
    /\ Get(knowledge_bases_db, response.id) = response.body
    /\ response.body.name = "beta"
    /\ response.body.description = "about"
    /\ response.body.last_updated > response.body.created_date

\* C17: get_knowledge_base_stats of an existing knowledge base answers with
\* total_documents equal to the number of 'completed' records of the
\* document registry, stores that number in the record's document_count and
\* sets the record's last_updated to the time of the call.
C17_StatsStep ==
    \A id \in Uuids :
        (Has(knowledge_bases_db, id) /\ get_knowledge_base_stats(id)) =>
            LET completed == {i \in 1..Len(documents_db) :
                                  documents_db[i].status = "completed"}
            IN  /\ response'.code = 200
                /\ response'.body.total_documents = Cardinality(completed)
                /\ Get(knowledge_bases_db', id).document_count = Cardinality(completed)
                /\ Get(knowledge_bases_db', id).last_updated = clock

C17_StatsRecomputeDocumentCount == [][C17_StatsStep]_vars

\* C18: every knowledge-base record has last_updated >= created_date; the
\* record a create adds has created_date = last_updated; no step changes the
\* created_date of a record or lowers its last_updated.
C18_TimestampStep ==
    /\ \A i \in 1..Len(knowledge_bases_db') :
           LET new == knowledge_bases_db'[i]
           IN  /\ new.last_updated >= new.created_date
               /\ IF Has(knowledge_bases_db, new.id)
                  THEN LET old == Get(knowledge_bases_db, new.id)
                       IN  /\ new.created_date = old.created_date
                           /\ new.last_updated >= old.last_updated
                  ELSE /\ new.created_date = new.last_updated
                       /\ new.created_date = clock
                       /\ response'.op = "create_knowledge_base"
                       /\ response'.body = new

C18_LastUpdatedNotBeforeCreated == [][C18_TimestampStep]_vars

C18_Witness ==
    \E i, j \in 1..Len(knowledge_bases_db) :
        /\ knowledge_bases_db[i].created_date = 0
        /\ knowledge_bases_db[i].last_updated = MaxClock
        /\ knowledge_bases_db[j].created_date = MaxClock
        /\ knowledge_bases_db[j].last_updated = MaxClock
        /\ MaxClock > 0

\* After every step: an upload of the test document whose insert returned
\* true has the answer 200 with status 'completed' and text_length n; a
\* get_document of its id then answers with the filename and the status of
\* the upload's answer.
C19_Step(n) ==
    \A r \in Req :
        LET q == requests'[r]
        IN  (/\ q.kind = "upload" /\ q.file = ScenarioFile /\ q.pc = "done"
             /\ q.result = Bool(TRUE)) =>
                /\ q.response.code = 200
                /\ q.response.status = "completed"
                /\ q.response.text_length = n
                /\ (requests[r] = q /\ get_document(q.document_id)) =>
                       /\ response'.code = 200
                       /\ response'.body.filename = q.response.filename
                       /\ response'.body.filename = Files[ScenarioFile].filename
                       /\ response'.body.status = q.response.status

\* C19 (as stated): the upload of notes.txt holding 'Hello world, this is a
\* test document.' is answered, when the insert succeeds, with status
\* 'completed' and text_length 38, and get_document finds it with the same
\* filename and status.
C19_TestDocumentLength38 == [][C19_Step(38)]_vars

\* C19 (amended): the same with text_length 37, the number of characters of
\* the text.
C19_TestDocumentLength37 == [][C19_Step(Len(TestDocument))]_vars

C19_Witness ==
    \E r \in Req :
        /\ requests[r].kind = "upload" /\ requests[r].file = ScenarioFile
        /\ requests[r].pc = "done" /\ requests[r].result = Bool(TRUE)
        /\ requests[r].response.text_length = 37
        /\ response.op = "get_document" /\ response.id = requests[r].document_id
        /\ response.code = 200
        /\ response.body.status = "completed"
        /\ response.body.filename = requests[r].response.filename

TooShort == "Extracted text is too short (minimum 10 characters required)"

\* The message msg is part of the exception r.
InErr(msg, r) == \E i \in 1..Len(r.err) : r.err[i] = msg

RECURSIVE SumLen(_)
SumLen(texts) == IF texts = << >> THEN 0 ELSE Len(Head(texts)) + SumLen(Tail(texts))

PageTexts(pdf) == [i \in 1..Len(pdf.pages) |-> pdf.pages[i].text]

RECURSIVE CellCount(_)
CellCount(rows) == IF rows = << >> THEN 0 ELSE SumLen(Head(rows)) + CellCount(Tail(rows))

RECURSIVE TableCount(_)
TableCount(tables) ==
    IF tables = << >> THEN 0 ELSE CellCount(Head(tables)) + TableCount(Tail(tables))

\* Number of characters of content of the file of call c: the bytes of a
\* text file, the text the libraries find in a PDF or a Word document.
ContentLength(c) ==
    LET ext == Lower(Suffix(c.filename))
    IN  IF ext = DotPdf
        THEN SumLen(PageTexts(c.lib.pdfplumber)) + SumLen(PageTexts(c.lib.pypdf2))
        ELSE IF ext = DotDocx
        THEN SumLen(c.lib.docx.paragraphs) + TableCount(c.lib.docx.tables)
        ELSE Len(c.file_content)

\* What the parser of the format of call c makes of it.
ParserOf(c) ==
    LET ext == Lower(Suffix(c.filename))
    IN  IF ext = DotPdf THEN extract_text_from_pdf(c.lib)
        ELSE IF ext = DotDocx THEN extract_text_from_docx(c.lib)
        ELSE extract_text_from_txt(c.file_content)

\* A finished call of extract_text_from_file on a file of a supported format
\* with fewer than 10 characters of content.
ShortCall ==
    /\ call.fn = "extract_text_from_file" /\ call.pc = "returned"
    /\ Lower(Suffix(call.filename)) \in {DotPdf, DotDocx, DotTxt, DotMd}
    /\ ContentLength(call) < MinTextLength

AsciiLower(s) == [i \in 1..Len(s) |-> IF s[i] \in 65..90 THEN s[i] + 32 ELSE s[i]]

\* The final extension of a name, read off the name itself: what follows
\* the last dot, the dot included, when the dot is neither the first nor
\* the last character of the name.
ExtensionOf(filename) ==
    LET dots == {i \in 1..Len(filename) : filename[i] = 46}
        last == CHOOSE i \in dots : \A j \in dots : j <= i
    IN  IF dots = {} \/ last = 1 \/ last = Len(filename) THEN << >>
        ELSE AsciiLower(SubSeq(filename, last, Len(filename)))

Returned == call.fn = "extract_text_from_file" /\ call.pc = "returned"

ParserNames == {"extract_text_from_pdf", "extract_text_from_docx", "extract_text_from_txt"}

\* C21: extract_text_from_file dispatches on the extension of the filename
\* without regard to case among .pdf, .docx, .txt and .md (a name in another
\* case gets the parser, and the result, of the same name in lower case);
\* for any other extension, or none, it fails with the unsupported-format
\* error and calls neither a parser nor clean_text.
C21_UnsupportedExtensionNoParser ==
    Returned =>
        /\ ExtensionOf(call.filename) = DotPdf =>
               call.invoked \cap ParserNames = {"extract_text_from_pdf"}
        /\ ExtensionOf(call.filename) = DotDocx =>
               call.invoked \cap ParserNames = {"extract_text_from_docx"}
        /\ ExtensionOf(call.filename) \in {DotTxt, DotMd} =>
               call.invoked \cap ParserNames = {"extract_text_from_txt"}
        /\ call.filename \in MixedCaseNames =>
               /\ call.result.ok <=> call.file_content # << >> \/ ExtensionOf(call.filename) \in {DotPdf, DotDocx}
               /\ call.result.ok => call.result.text = HelloWorld
        /\ ExtensionOf(call.filename) \notin {DotPdf, DotDocx, DotTxt, DotMd} =>
               /\ ~call.result.ok
               /\ call.result.err = <<"Text extraction failed", "Unsupported file type">>
               /\ call.invoked = {}

C21_Witness ==
    /\ Returned
    /\ call.filename = <<82, 69, 65, 68, 77, 69>>
    /\ call.file_content = HelloWorld
    /\ call.invoked = {}
    /\ InErr("Unsupported file type", call.result)

\* C22: under any interleaving of initialize, insert_document and
\* query_knowledge_graph calls, concurrent first calls that suspend inside
\* initialize included, the engine instance is constructed at most once.
C22_ConstructedAtMostOnce == constructed <= 1

\* The record of id was stored by its upload and is no longer in the
\* registry: a delete_document removed it.
Deleted(id, db) ==
    /\ ~Has(db, id)
    /\ \E r \in Req : requests[r].document_id = id /\ requests[r].statuses # << >>

C23_DeleteStep ==
    \A id \in Uuids :
        /\ Has(documents_db', id) /\ ~Has(documents_db, id) =>
               \A r \in Req : requests[r].document_id # id \/ requests[r].pc = "read"
        /\ Deleted(id, documents_db) => ~Has(documents_db', id)

\* C23: an id is stored once, by the upload it was drawn for, and after
\* delete_document(id) succeeded the id is absent from the registry in
\* every later state, also when the delete ran while the upload that
\* created the id was suspended in the adapter's insert.
C23_DeletedStaysDeleted == [][C23_DeleteStep]_vars

\* C24: in every reachable state, after any interleaving of uploads and
\* deletes, list_documents returns the records in ascending order of
\* upload_time.
C24_ListAscendingUploadTime ==
    response.op = "list_documents" =>
        \A i, j \in 1..Len(response.body.documents) :
            i < j => response.body.documents[i].upload_time
                         <= response.body.documents[j].upload_time

TerminalStatuses == {"completed", "failed", "error"}

\* The record of id is in the registry with a status in the set.
StatusIn(id, statuses) ==
    Has(documents_db, id) /\ Get(documents_db, id).status \in statuses

\* No record is 'processing' once the upload that created it has finished.
FinishedNotProcessing ==
    \A r \in Req :
        (requests[r].kind = "upload" /\ requests[r].pc = "done") =>
            ~StatusIn(requests[r].document_id, {"processing"})

\* C25: every record that enters 'processing' eventually is 'completed',
\* 'failed' or 'error', provided the engine calls awaited by the adapter's
\* insert return; no record is 'processing' once the upload request that
\* created it has finished.
C25_ProcessingEnds ==
    /\ \A id \in Uuids : StatusIn(id, {"processing"}) ~> StatusIn(id, TerminalStatuses)
    /\ []FinishedNotProcessing

C25_Witness ==
    /\ \A r \in Req : requests[r].kind = "upload" /\ requests[r].pc = "done"
    /\ requests[1].statuses = <<"processing", "failed">>
    /\ requests[2].statuses = <<"processing", "completed">>
    /\ StatusIn(requests[1].document_id, {"failed"})
    /\ StatusIn(requests[2].document_id, {"completed"})

\* The four decodings of a buffer, in the order UTF-8, UTF-16, Latin-1,
\* CP1252.
Decodings(b) == <<DecodeUtf8(b), DecodeUtf16(b), DecodeLatin1(b), DecodeCp1252(b)>>

\* A decoding that succeeded and is not empty after stripping.
Usable(d) == d.ok /\ Strip(d.text) # << >>

DecodeFailed ==
    <<"Text file extraction failed", "Could not decode text file with any supported encoding">>

\* C26: extract_text_from_txt tries UTF-8, UTF-16, Latin-1 and CP1252 in
\* that order and returns the stripped text of the first decoding that
\* succeeds and is non-empty after stripping; it fails with the decode error
\* only if no decoding of the list does so.  So "h" is read as UTF-8, the
\* bytes E9 20 as UTF-16, E9 alone as Latin-1 and 85 alone as CP1252.
C26_FirstUsableDecoding ==
    (call.fn = "extract_text_from_txt" /\ call.pc = "returned") =>
        LET ds   == Decodings(call.file_content)
            good == {i \in 1..4 : Usable(ds[i])}
        IN  /\ good = {} => ~call.result.ok /\ call.result.err = DecodeFailed
            /\ good # {} =>
                   /\ call.result.ok
                   /\ \E i \in good :
                          /\ \A j \in good : i <= j
                          /\ call.result.text = Strip(ds[i].text)
            /\ call.file_content = <<104>> => call.result.text = <<104>>
            /\ call.file_content = <<233, 32>> => call.result.text = <<8425>>
            /\ call.file_content = <<233>> => call.result.text = <<233>>
            /\ call.file_content = <<133>> => call.result.text = <<8230>>
            /\ call.file_content \in {<< >>, <<32>>} => ~call.result.ok

C26_Witness ==
    /\ call.fn = "extract_text_from_txt" /\ call.pc = "returned"
    /\ call.file_content = <<133>>
    /\ call.result.ok
    /\ ~Usable(DecodeLatin1(call.file_content))
    /\ call.result.text = <<8230>>

\* C27: for every input text the output of clean_text has no leading or
\* trailing whitespace, no two consecutive spaces and no control character
\* other than newline and tab, and cleaning it again changes nothing.
C27_CleanTextNormalForm ==
    (call.fn = "clean_text" /\ call.pc = "returned") =>
        LET out == call.result.text
        IN  /\ out # << >> => ~IsSpace(out[1]) /\ ~IsSpace(out[Len(out)])
            /\ \A i \in 1..(Len(out) - 1) : ~(out[i] = 32 /\ out[i + 1] = 32)
            /\ \A i \in 1..Len(out) : ~IsControl(out[i])
            /\ clean_text(out) = out

\* What an extractor yields on its own, starting from an empty text: it
\* raised, or the text of its pages.
FirstAlone(lib) ==
    IF lib.pdfplumber.open_raises THEN [raised |-> TRUE, text |-> << >>]
    ELSE PlumberPages(lib.pdfplumber.pages, 1, << >>)

SecondAlone(lib) ==
    IF lib.pypdf2.open_raises THEN [raised |-> TRUE, text |-> << >>]
    ELSE PyPDF2Pages(lib.pypdf2.pages, 1, << >>)

\* An attempt that did not raise and has text other than whitespace.
HasText(attempt) == ~attempt.raised /\ Strip(attempt.text) # << >>

\* C28: in extract_text_from_pdf the second extractor is used exactly when
\* the layout-aware one raised or yielded no text other than whitespace, and
\* then the text returned is the output of the second extractor alone, with
\* nothing carried over from the first attempt; if both fail or yield only
\* whitespace the extraction fails.
C28_FallbackTextAlone ==
    (call.fn = "extract_text_from_pdf" /\ call.pc = "returned") =>
        LET first  == FirstAlone(call.lib)
            second == SecondAlone(call.lib)
        IN  IF HasText(first)
            THEN call.result.ok /\ call.result.text = Strip(first.text)
            ELSE IF HasText(second)
            THEN call.result.ok /\ call.result.text = Strip(second.text)
            ELSE ~call.result.ok

\* C29: under any interleaving of concurrent initialize, insert, query and
\* finalize calls the initialized flag is true only if an engine handle is
\* present, and a caller to which initialize returned true makes its engine
\* call on a live handle: it never fails for want of a handle.
C29_InitializedOnlyWithHandle ==
    /\ _initialized => rag # 0
    /\ \A r \in Req : requests[r].error # AttributeError

\* The record stored under id, NoInfo if there is none.
RecordOf(db, id) == IF Has(db, id) THEN Get(db, id) ELSE NoInfo

C30_UploadStep ==
    /\ \A r1, r2 \in Req :
           (r1 # r2 /\ requests'[r1].document_id # 0) =>
               requests'[r1].document_id # requests'[r2].document_id
    /\ \A id \in Uuids :
           RecordOf(documents_db', id) # RecordOf(documents_db, id) =>
               \E r \in Req : /\ requests[r].document_id = id
                               /\ requests'[r] # requests[r]
                               /\ \A o \in Req \ {r} : requests'[o] = requests[o]
    /\ \A r \in Req :
           (requests'[r].pc = "done" /\ requests'[r].result.kind = "bool") =>
               /\ Has(documents_db', requests'[r].document_id)
               /\ Get(documents_db', requests'[r].document_id).status =
                      (IF requests'[r].result.value THEN "completed" ELSE "failed")
               /\ requests'[r].response.status =
                      (IF requests'[r].result.value THEN "completed" ELSE "failed")

\* C30: two uploads that interleave at their awaits get distinct ids, a step
\* of an upload changes no record but the one of its own id, and once an
\* upload has finished its record holds the status its own insert result
\* determines, whatever the other upload did meanwhile.
C30_UploadsDoNotInterfere == [][C30_UploadStep]_vars

C30_Witness ==
    /\ \A r \in Req : requests[r].kind = "upload" /\ requests[r].pc = "done"
    /\ requests[1].document_id # requests[2].document_id
    /\ requests[1].result = Bool(TRUE) /\ requests[2].result = Bool(FALSE)
    /\ constructed = 2
    /\ Get(documents_db, requests[1].document_id).status = "completed"
    /\ Get(documents_db, requests[2].document_id).status = "failed"

====
